---- MODULE Spec2Model ----
(***************************************************************************)
(* Model of the two status-bar blocks of src/blocks: TimeWarrior           *)
(* (timewarrior.rs) and SuperToggle (supertoggle.rs).  A bar hosts one     *)
(* block instance; the block shells out to a time tracker, classifies the  *)
(* captured stdout, and shows an icon, a text and a health state.          *)
(*                                                                         *)
(* Text is modelled as a sequence of one-character strings so that trim    *)
(* and regex matching are computed character by character.                 *)
(***************************************************************************)
EXTENDS Integers, Sequences, FiniteSets, TLC

(***************************************************************************)
(* Bounds                                                                  *)
(***************************************************************************)
\* exit statuses an action command may return: 0..MaxExit
MaxExit == 1

Exits == 0..MaxExit

\* exit statuses of the state command: timew exits 0, or 1 when nothing is tracked
StateExits == {0, 1}

(***************************************************************************)
(* Literals of the source                                                  *)
(***************************************************************************)
default_icon_on == "toggle_on"
default_icon_off == "toggle_off"

\* the literal prefix of the default tags regex  Tracking (?P<tags>.+)\n
TrackingLit == <<"T","r","a","c","k","i","n","g"," ">>

\* text shown by TimeWarrior::update when the regex does not match
NotFoundText == <<"N","O","T"," ","F","O","U","N","D">>

\* the value of the only entry of the field map of supertoggle.rs
TestValue == <<"t","e","s","t","v","a","l","u","e">>

\* e.to_string() of the io::Error of a failed spawn
SpawnErrorText == <<"N","o"," ","s","u","c","h"," ","f","i","l","e"," ","o","r"," ","d","i","r","e","c","t","o","r","y"," ","(","o","s"," ","e","r","r","o","r"," ","2",")">>

(***************************************************************************)
(* What the tracker prints on stdout for the state command                 *)
(***************************************************************************)
OutIdle == <<"T","h","e","r","e"," ","i","s"," ","n","o"," ","a","c","t","i","v","e"," ","t","i","m","e"," ","t","r","a","c","k","i","n","g",".","\n">>

OutCoding == <<"T","r","a","c","k","i","n","g"," ","c","o","d","i","n","g"," ","x","\n"," "," ","S","t","a","r","t","e","d"," ","9","\n">>

OutFocus == <<"T","r","a","c","k","i","n","g"," ","f","o","c","u","s","\n"," "," ","T","o","t","a","l"," ","1",":","0","7",":","3","3","\n">>

\* stdout of the state command while the tracker is in state t
StateStdout(t) == IF t THEN {OutCoding, OutFocus} ELSE {OutIdle}

(***************************************************************************)
(* String helpers                                                          *)
(***************************************************************************)
\* the characters with the Unicode White_Space property, which str::trim
\* removes: U+0009..U+000D, U+0020, U+0085, U+00A0, U+1680 as themselves,
\* U+2000..U+200A, U+2028, U+2029, U+202F, U+205F, U+3000 by their code points
WhiteSpace ==
    {" ", "\n", "\t", "\r", "\f", "", "", " ", " ",
     "U+2000", "U+2001", "U+2002", "U+2003", "U+2004", "U+2005",
     "U+2006", "U+2007", "U+2008", "U+2009", "U+200A", "U+2028",
     "U+2029", "U+202F", "U+205F", "U+3000"}

InvalidByte == "0xFF"

ReplacementChar == "U+FFFD"

\* String::from_utf8_lossy: every invalid byte becomes U+FFFD
FromUtf8Lossy(bytes) ==
    IF \A i \in 1..Len(bytes) : bytes[i] # InvalidByte THEN bytes
    ELSE [i \in 1..Len(bytes) |->
            IF bytes[i] = InvalidByte THEN ReplacementChar ELSE bytes[i]]

\* str::trim_start: drop leading white space
RECURSIVE TrimStart(_)
TrimStart(s) ==
    IF s = <<>> \/ Head(s) \notin WhiteSpace THEN s ELSE TrimStart(Tail(s))

\* str::trim_end: drop trailing white space
RECURSIVE TrimEnd(_)
TrimEnd(s) ==
    IF s = <<>> \/ s[Len(s)] \notin WhiteSpace THEN s
    ELSE TrimEnd(SubSeq(s, 1, Len(s) - 1))

\* str::trim: drop leading and trailing white space
Trim(s) == TrimEnd(TrimStart(s))

\* p occurs in s starting at index i
IsPrefixAt(s, i, p) ==
    /\ i + Len(p) - 1 <= Len(s)
    /\ \A k \in 1..Len(p) : s[i + k - 1] = p[k]

Least(S) == CHOOSE i \in S : \A j \in S : i <= j

(***************************************************************************)
(* Regular expressions.  A regex is one of three patterns; RegexCaptures   *)
(* is Regex::captures: the leftmost match and its named groups.            *)
(*   "tags_line"     Tracking (?P<tags>.+)\n   (the TimeWarrior default)   *)
(*   "tracking_word" Tracking                  (no named group)            *)
(*   "any_char"      .                         (no named group)            *)
(***************************************************************************)
NoGroups == [g \in {} |-> <<>>]

NoMatch == [matched |-> FALSE, groups |-> NoGroups]

\* Tracking (?P<tags>.+)\n  matches at i: the literal, at least one
\* character other than newline, then a newline
TagsLineAt(s, i) ==
    /\ IsPrefixAt(s, i, TrackingLit)
    /\ i + Len(TrackingLit) <= Len(s)
    /\ s[i + Len(TrackingLit)] # "\n"
    /\ \E j \in (i + Len(TrackingLit) + 1)..Len(s) : s[j] = "\n"

RegexCaptures(regex, s) ==
    CASE regex = "tags_line" ->
           LET starts == {i \in 1..Len(s) : TagsLineAt(s, i)}
           IN  IF starts = {} THEN NoMatch
               ELSE LET i  == Least(starts)
                        st == i + Len(TrackingLit)
                        nl == Least({j \in (st + 1)..Len(s) : s[j] = "\n"})
                    IN  [matched |-> TRUE, groups |-> [g \in {"tags"} |-> SubSeq(s, st, nl - 1)]]
      [] regex = "tracking_word" ->
           IF \E i \in 1..Len(s) : IsPrefixAt(s, i, SubSeq(TrackingLit, 1, 8))
           THEN [matched |-> TRUE, groups |-> NoGroups]
           ELSE NoMatch
      [] regex = "any_char" ->
           IF \E i \in 1..Len(s) : s[i] # "\n"
           THEN [matched |-> TRUE, groups |-> NoGroups]
           ELSE NoMatch

\* the named capture groups the pattern defines
NamedGroups(regex) == IF regex = "tags_line" THEN {"tags"} ELSE {}

RegexIsMatch(regex, s) == RegexCaptures(regex, s).matched

(***************************************************************************)
(* Child processes.  A run of `$SHELL -c cmd` either cannot be spawned or  *)
(* exits with a status and a captured stdout.                              *)
(***************************************************************************)
Run(cmd, spawned, exit, stdout) ==
    [cmd |-> cmd, spawned |-> spawned, exit |-> IF spawned THEN exit ELSE 0,
     stdout |-> IF spawned THEN stdout ELSE <<>>]

\* the exit statuses of the state command while the tracker is in state t:
\* 0 while tracking, 0 or non-zero on "no active tracking"
StateExitsOf(t) == IF t THEN {0} ELSE StateExits

\* the state command could not be spawned
UnspawnedStateRun == Run("command_state", FALSE, 0, <<>>)

\* the runs the state command can produce while the tracker is in state t
StateRuns(t) ==
    {Run("command_state", TRUE, e, o) : e \in StateExitsOf(t), o \in StateStdout(t)}
      \cup {UnspawnedStateRun}

\* the runs an action command can produce
ActionRuns(cmd) ==
    {Run(cmd, TRUE, e, <<>>) : e \in Exits} \cup {Run(cmd, FALSE, 0, <<>>)}

\* the tracker after an action command: exit status 0 means the action took effect
TrackerAfter(t, run) ==
    IF run.spawned /\ run.exit = 0 THEN run.cmd = "command_on" ELSE t

(***************************************************************************)
(* The text widget (TextWidget): icon, text, state                         *)
(***************************************************************************)
NoIcon == "none"

\* TextWidget::new(..).with_text(""): no icon, empty text, State::Idle
NewWidget == [icon |-> NoIcon, text |-> <<>>, state |-> "Idle"]

\* TextWidget::set_icon: the icon is looked up in the theme; an unknown
\* name is an error and leaves the widget as it was
set_icon(w, name, theme) ==
    IF name \in theme
    THEN [ok |-> TRUE, w |-> [w EXCEPT !.icon = name]]
    ELSE [ok |-> FALSE, w |-> w]

set_text(w, t) == [w EXCEPT !.text = t]

set_state(w, s) == [w EXCEPT !.state = s]

\* Result: Ok(value) or Err(BlockError(tag, ..))
Ok(v) == [status |-> "Ok", value |-> v, tag |-> ""]

Err(tag) == [status |-> "Err", value |-> {}, tag |-> tag]

\* the value of Ok(())
Unit == {}

(***************************************************************************)
(* State                                                                   *)
(***************************************************************************)
VARIABLES
    block,            \* which block the bar hosts: "TimeWarrior" or "SuperToggle"
    icons,            \* shared_config: the icon names the theme resolves
    update_interval,  \* Option<Duration>: {} or {seconds}
    regex_on,         \* command_status_tags_display_regex / command_data_on_regex
    regex_off,        \* command_data_off_regex
    format_on,        \* SuperToggle.format_on
    format_off,       \* SuperToggle.format_off
    toggled,          \* TimeWarrior.toggled
    text,             \* the block's TextWidget
    tracker,          \* the tracker's real state: TRUE while tracking
    changed_outside,  \* the tracker was toggled outside the bar since the last operation
    last,             \* the most recent operation: its inputs, result and pre-state
    prev,             \* TimeWarrior: the kind of the operation before it
    prior,            \* TimeWarrior: toggled, icon and command fired of the operation before it
    last_action,      \* how the most recent click-triggered action command ended
    pc,               \* the handler in progress, where it stands, the runs it has collected
    running           \* the child processes that were spawned and have not exited

vars == <<block, icons, update_interval, regex_on, regex_off, format_on, format_off,
          toggled, text, tracker, changed_outside, last, prev, prior, last_action,
          pc, running>>

\* the part of the state only the step-by-step specification moves
proc == <<pc, running>>

config == <<block, icons, update_interval, regex_on, regex_off, format_on, format_off>>


(***************************************************************************)
(* Format templates (FormatTemplate): a sequence of literal and            *)
(* placeholder tokens; render fails on a placeholder without a value.      *)
(***************************************************************************)
Lit(s) == [kind |-> "lit", lit |-> s, name |-> ""]

Var(n) == [kind |-> "var", lit |-> <<>>, name |-> n]

\* "TW [ {tags} ] {hours}:{minutes}"
DefaultFormatOn ==
    <<Lit(<<"T","W"," ","["," ">>), Var("tags"), Lit(<<" ","]"," ">>),
      Var("hours"), Lit(<<":">>), Var("minutes")>>

\* "TW IDLE"
DefaultFormatOff == <<Lit(<<"T","W"," ","I","D","L","E">>)>>

\* a configured format_on that uses the key the field map has: "ST {testing}"
TestingFormatOn == <<Lit(<<"S","T"," ">>), Var("testing")>>

RECURSIVE RenderTokens(_, _)
RenderTokens(template, fields) ==
    IF template = <<>> THEN <<>>
    ELSE LET t == Head(template)
         IN  (IF t.kind = "lit" THEN t.lit ELSE fields[t.name])
               \o RenderTokens(Tail(template), fields)

Render(template, fields) ==
    IF \E i \in 1..Len(template) :
           template[i].kind = "var" /\ template[i].name \notin DOMAIN fields
    THEN [ok |-> FALSE, text |-> <<>>]
    ELSE [ok |-> TRUE, text |-> RenderTokens(template, fields)]

(***************************************************************************)
(* SuperToggle (supertoggle.rs)                                            *)
(***************************************************************************)
\* get_output_of_command that treats a non-zero exit status as an error
get_output_of_command_checks_status(run) ==
    IF ~run.spawned THEN Err("spawn")
    ELSE IF run.exit # 0 THEN Err("exit")
    ELSE Ok(Trim(FromUtf8Lossy(run.stdout)))

\* stdout of the run, decoded and trimmed; the exit status is not looked at
get_output_of_command(run) ==
    IF run.spawned THEN Ok(Trim(FromUtf8Lossy(run.stdout))) ELSE Err("spawn")

\* always Some(map) with the single entry testing => testvalue
get_mapped_matches_from_string(totest, regex) ==
    [some |-> TRUE, map |-> [k \in {"testing"} |-> TestValue]]

is_on_status(run) ==
    LET output == get_output_of_command(run)
    IN  IF output.status = "Err" THEN output
        ELSE LET m_on  == get_mapped_matches_from_string(output.value, regex_on)
                 m_off == get_mapped_matches_from_string(output.value, regex_off)
             IN  IF m_on.some THEN Ok([on |-> TRUE, fields |-> m_on.map])
                 ELSE IF m_off.some THEN Ok([on |-> FALSE, fields |-> m_off.map])
                 ELSE Err("is_on_status")

\* SuperToggle::update on widget w when the state command runs as `run`
SuperToggle_update(w, run) ==
    LET st == is_on_status(run)
    IN  IF st.status = "Err" THEN [w |-> w, ret |-> st]
        ELSE LET on == st.value.on
                 ic == set_icon(w, IF on THEN default_icon_on ELSE default_icon_off, icons)
                 r  == Render(IF on THEN format_on ELSE format_off, st.value.fields)
             IN  IF ~ic.ok THEN [w |-> w, ret |-> Err("icon")]
                 ELSE IF ~r.ok THEN [w |-> ic.w, ret |-> Err("render")]
                 ELSE [w   |-> set_state(set_text(ic.w, r.text), "Idle"),
                       ret |-> Ok(update_interval)]

\* SuperToggle::click that re-runs update also when the action command
\* could not be spawned
SuperToggle_click_update_always(w, probe, act, reread) ==
    LET st == is_on_status(probe)
    IN  IF st.status = "Err" THEN [w |-> w, ret |-> st, procs |-> <<probe>>]
        ELSE LET on == st.value.on
                 w0 == IF get_output_of_command(act).status = "Ok"
                       THEN set_state(w, "Idle") ELSE set_state(w, "Critical")
                 u  == SuperToggle_update(w0, reread)
                 ic == set_icon(u.w, IF ~on THEN default_icon_on ELSE default_icon_off, icons)
             IN  IF u.ret.status = "Err"
                 THEN [w |-> u.w, ret |-> u.ret, procs |-> <<probe, act, reread>>]
                 ELSE IF ~ic.ok
                 THEN [w |-> u.w, ret |-> Err("icon"), procs |-> <<probe, act, reread>>]
                 ELSE [w |-> ic.w, ret |-> Ok(Unit), procs |-> <<probe, act, reread>>]

\* SuperToggle::click: probe is the first state command, act the action
\* command, reread the state command of the update that follows
SuperToggle_click(w, probe, act, reread) ==
    LET st == is_on_status(probe)
    IN  IF st.status = "Err" THEN [w |-> w, ret |-> st, procs |-> <<probe>>]
        ELSE IF ~get_output_of_command(act).status = "Ok"
        THEN [w |-> set_state(w, "Critical"), ret |-> Ok(Unit), procs |-> <<probe, act>>]
        ELSE LET on == st.value.on
                 u  == SuperToggle_update(set_state(w, "Idle"), reread)
                 ic == set_icon(u.w, IF ~on THEN default_icon_on ELSE default_icon_off, icons)
             IN  IF u.ret.status = "Err"
                 THEN [w |-> u.w, ret |-> u.ret, procs |-> <<probe, act, reread>>]
                 ELSE IF ~ic.ok
                 THEN [w |-> u.w, ret |-> Err("icon"), procs |-> <<probe, act, reread>>]
                 ELSE [w |-> ic.w, ret |-> Ok(Unit), procs |-> <<probe, act, reread>>]

\* the command SuperToggle::click selects after the probe
SuperToggle_cmd(probe) ==
    IF is_on_status(probe).value.on THEN "command_off" ELSE "command_on"

(***************************************************************************)
(* TimeWarrior (timewarrior.rs)                                            *)
(***************************************************************************)
\* TimeWarrior::update that returns Ok(None) whatever the configured interval
TimeWarrior_update_no_interval(w, run) ==
    LET output == IF run.spawned THEN Trim(FromUtf8Lossy(run.stdout)) ELSE SpawnErrorText
        cap    == RegexCaptures(regex_on, output)
        tags   == IF ~cap.matched THEN NotFoundText
                  ELSE IF "tags" \in DOMAIN cap.groups THEN cap.groups["tags"] ELSE <<>>
        ic     == set_icon(w, IF cap.matched THEN default_icon_on ELSE default_icon_off, icons)
    IN  IF ~ic.ok THEN [toggled |-> cap.matched, w |-> w, ret |-> Err("icon")]
        ELSE [toggled |-> cap.matched,
              w       |-> set_state(set_text(ic.w, tags), "Idle"),
              ret     |-> Ok({})]

\* TimeWarrior::update on widget w when the state command runs as `run`
TimeWarrior_update(w, run) ==
    LET output == IF run.spawned THEN Trim(FromUtf8Lossy(run.stdout)) ELSE SpawnErrorText
        cap    == RegexCaptures(regex_on, output)
        tags   == IF ~cap.matched THEN NotFoundText
                  ELSE IF "tags" \in DOMAIN cap.groups THEN cap.groups["tags"] ELSE <<>>
        ic     == set_icon(w, IF cap.matched THEN default_icon_on ELSE default_icon_off, icons)
    IN  IF ~ic.ok THEN [toggled |-> cap.matched, w |-> w, ret |-> Err("icon")]
        ELSE [toggled |-> cap.matched,
              w       |-> set_state(set_text(ic.w, tags), "Idle"),
              ret     |-> Ok(update_interval)]

\* the action command chosen without looking at the cached flag
TimeWarrior_cmd_on_always(tg) == "command_on"

\* the command TimeWarrior::click selects
TimeWarrior_cmd(tg) == IF tg THEN "command_off" ELSE "command_on"

\* TimeWarrior::click that sets the icon from the flag before the flip
TimeWarrior_click_stale_icon(w, tg, act) ==
    IF ~act.spawned THEN [toggled |-> tg, w |-> w, ret |-> Err("toggle")]
    ELSE IF act.exit = 0
    THEN LET ic == set_icon(set_state(w, "Idle"),
                            IF tg THEN default_icon_on ELSE default_icon_off, icons)
         IN  [toggled |-> ~tg, w |-> ic.w,
              ret |-> IF ic.ok THEN Ok(Unit) ELSE Err("icon")]
    ELSE [toggled |-> tg, w |-> set_state(w, "Critical"), ret |-> Ok(Unit)]

\* TimeWarrior::click on widget w with cached flag tg when the action runs as `act`
TimeWarrior_click(w, tg, act) ==
    IF ~act.spawned THEN [toggled |-> tg, w |-> w, ret |-> Err("toggle")]
    ELSE IF act.exit = 0
    THEN LET ic == set_icon(set_state(w, "Idle"),
                            IF ~tg THEN default_icon_on ELSE default_icon_off, icons)
         IN  [toggled |-> ~tg, w |-> ic.w,
              ret |-> IF ic.ok THEN Ok(Unit) ELSE Err("icon")]
    ELSE [toggled |-> tg, w |-> set_state(w, "Critical"), ret |-> Ok(Unit)]

(***************************************************************************)
(* The state machine                                                       *)
(***************************************************************************)
Blocks == {"TimeWarrior", "SuperToggle"}

\* icon themes: both icons resolve, or one of them is missing
Themes == {{default_icon_on, default_icon_off}, {default_icon_on}, {default_icon_off}}

\* Option<Duration> as a set: {} is None, {5} is Some(5 s)
Intervals == {{}, {5}}

Snapshot == [toggled |-> toggled, text |-> text, tracker |-> tracker,
             outside |-> changed_outside]

\* an action command was fired during the operation l
HasAction(l) == \E i \in 1..Len(l.procs) : l.procs[i].cmd # "command_state"

\* the position of the action command among the child processes of l
ActionIdx(l) == CHOOSE i \in 1..Len(l.procs) : l.procs[i].cmd # "command_state"

ActionOf(l) == l.procs[ActionIdx(l)]

\* the action command contract: exit status 0 <=> the action succeeded
Succeeded(run) == run.spawned /\ run.exit = 0

\* the kind of the operation `last` records
KindOf(l) ==
    IF l.op # "click" THEN l.op
    ELSE IF ~HasAction(l) THEN "click_no_action"
    ELSE IF Succeeded(ActionOf(l)) THEN "click_succeeded"
    ELSE "click_failed"

\* what `prior` keeps of the operation l: toggled and icon before it, and
\* the action command it fired
Summary(l) ==
    [toggled |-> l.pre.toggled, icon |-> l.pre.text.icon,
     cmd |-> IF HasAction(l) THEN ActionOf(l).cmd ELSE "none"]

\* last_action after an operation whose child processes were procs
ActionOutcome(procs, before) ==
    LET l == [op |-> "click", procs |-> procs]
    IN  IF ~HasAction(l) THEN before
        ELSE IF Succeeded(ActionOf(l)) THEN "succeeded" ELSE "failed"

\* no handler is in progress
IdlePc ==
    [op |-> "idle", at |-> "run", runs |-> <<>>,
     pre |-> [toggled |-> FALSE, text |-> NewWidget, tracker |-> FALSE, outside |-> FALSE]]

Init ==
    /\ block \in Blocks
    /\ icons \in Themes
    /\ update_interval \in Intervals
    /\ regex_on \in (IF block = "TimeWarrior" THEN {"tags_line", "tracking_word"}
                     ELSE {"tags_line"})
    /\ regex_off = "any_char"
    /\ format_on \in (IF block = "SuperToggle" THEN {DefaultFormatOn, TestingFormatOn}
                      ELSE {DefaultFormatOn})
    /\ format_off = DefaultFormatOff
    /\ toggled = FALSE
    /\ text = NewWidget
    /\ tracker \in BOOLEAN
    /\ changed_outside = FALSE
    /\ last = [op |-> "new", ret |-> Ok(Unit), procs |-> <<>>,
               pre |-> [toggled |-> FALSE, text |-> NewWidget, tracker |-> tracker,
                        outside |-> FALSE]]
    /\ prev = "none"
    /\ prior = [toggled |-> FALSE, icon |-> NoIcon, cmd |-> "none"]
    /\ last_action = "none"
    /\ pc = IdlePc
    /\ running = <<>>

\* the host's update tick on a TimeWarrior block
TWUpdate ==
    /\ block = "TimeWarrior"
    /\ \E run \in StateRuns(tracker) :
         LET r == TimeWarrior_update(text, run)
         IN  /\ toggled' = r.toggled
             /\ text' = r.w
             /\ last' = [op |-> "update", ret |-> r.ret, procs |-> <<run>>, pre |-> Snapshot]
    /\ prev' = KindOf(last)
    /\ prior' = Summary(last)
    /\ changed_outside' = FALSE
    /\ UNCHANGED <<config, tracker, last_action, proc>>

\* the host's click event on a TimeWarrior block
TWClick ==
    /\ block = "TimeWarrior"
    /\ \E act \in ActionRuns(TimeWarrior_cmd(toggled)) :
         LET r == TimeWarrior_click(text, toggled, act)
         IN  /\ toggled' = r.toggled
             /\ text' = r.w
             /\ tracker' = TrackerAfter(tracker, act)
             /\ last' = [op |-> "click", ret |-> r.ret, procs |-> <<act>>, pre |-> Snapshot]
             /\ last_action' = ActionOutcome(<<act>>, last_action)
    /\ prev' = KindOf(last)
    /\ prior' = Summary(last)
    /\ changed_outside' = FALSE
    /\ UNCHANGED <<config, proc>>

\* the host's update tick on a SuperToggle block
STUpdate ==
    /\ block = "SuperToggle"
    /\ \E run \in StateRuns(tracker) :
         LET r == SuperToggle_update(text, run)
         IN  /\ text' = r.w
             /\ last' = [op |-> "update", ret |-> r.ret, procs |-> <<run>>, pre |-> Snapshot]
    /\ changed_outside' = FALSE
    /\ UNCHANGED <<config, toggled, tracker, last_action, prev, prior, proc>>

\* the tracker t after the user toggled it outside the bar, or not
Toggled(t, flip) == IF flip THEN ~t ELSE t

\* the host's click event on a SuperToggle block. The click waits for up to
\* three child processes, and the user may toggle the tracker outside the bar
\* while it does: `flip` is a toggle made after the action command acted and
\* before the re-read. A toggle made earlier in the click, after the probe
\* read the tracker, gives the same runs and the same tracker as one of these
\* clicks (a succeeding action command overrides it, a failing one leaves it
\* standing), and one made after the last child is External. A state command
\* the click does not run again is not enumerated.
STClick ==
    /\ block = "SuperToggle"
    /\ \E probe \in StateRuns(tracker) :
         IF is_on_status(probe).status = "Err"
         THEN /\ text' = text
              /\ tracker' = tracker
              /\ last' = [op |-> "click", ret |-> is_on_status(probe), procs |-> <<probe>>,
                          pre |-> Snapshot]
              /\ last_action' = last_action
         ELSE \E act \in ActionRuns(SuperToggle_cmd(probe)), flip \in BOOLEAN :
              LET after == Toggled(TrackerAfter(tracker, act), flip)
              IN  \E reread \in StateRuns(after) :
                    LET r == SuperToggle_click(text, probe, act, reread)
                    IN  /\ Len(r.procs) < 3 => (reread = UnspawnedStateRun /\ ~flip)
                        /\ text' = r.w
                        /\ tracker' = after
                        /\ last' = [op |-> "click", ret |-> r.ret, procs |-> r.procs,
                                    pre |-> Snapshot]
                        /\ last_action' = ActionOutcome(r.procs, last_action)
    /\ changed_outside' = FALSE
    /\ UNCHANGED <<config, toggled, prev, prior, proc>>

\* the user starts or stops the tracker outside the bar
External ==
    /\ ~changed_outside
    /\ tracker' = ~tracker
    /\ changed_outside' = TRUE
    /\ UNCHANGED <<config, toggled, text, last, prev, prior, last_action, proc>>

Next == TWUpdate \/ TWClick \/ STUpdate \/ STClick \/ External

Spec == Init /\ [][Next]_vars

(***************************************************************************)
(* Vocabulary of the properties                                            *)
(***************************************************************************)
IsClick == last.op = "click"

IsUpdate == last.op = "update"

\* the decoded, trimmed stdout of a state-command run
OutputOf(run) == Trim(FromUtf8Lossy(run.stdout))

\* what the block's own update shows for the state-command run `run`
\* on the widget w: its classification, icon and text
Shown(w, run) ==
    IF block = "TimeWarrior" THEN TimeWarrior_update(w, run).w
    ELSE SuperToggle_update(w, run).w

\* a state command ran after the action command of the click l
RereadIdx(l) ==
    {i \in 1..Len(l.procs) :
        /\ i > ActionIdx(l)
        /\ l.procs[i].cmd = "command_state"
        /\ l.procs[i].spawned}

\* the state command of the update l could not be run, or its output
\* matches neither regex
ProbeFailed(l) ==
    \/ ~l.procs[1].spawned
    \/ /\ ~RegexIsMatch(regex_on, OutputOf(l.procs[1]))
       /\ ~RegexIsMatch(regex_off, OutputOf(l.procs[1]))

(***************************************************************************)
(* C1: after a click whose action command succeeded, the icon and the text *)
(* shown when click returns are the ones derived from a state command run  *)
(* after the action command, never a flip of the pre-click value.          *)
(* Violated: TimeWarrior::click runs no state command and flips the cached *)
(* flag; SuperToggle::click overwrites the icon after its update.          *)
(***************************************************************************)
C1_ClickShowsRereadState ==
    (IsClick /\ HasAction(last) /\ Succeeded(ActionOf(last)) /\ last.ret.status = "Ok")
      => \E i \in RereadIdx(last) :
            /\ text.icon = Shown(last.pre.text, last.procs[i]).icon
            /\ text.text = Shown(last.pre.text, last.procs[i]).text

(***************************************************************************)
(* C2: every click that fires an action command first runs and classifies  *)
(* the state command, and fires command_off iff that classification is ON. *)
(* Violated: TimeWarrior::click picks the command from the cached flag.    *)
(***************************************************************************)
C2_ClickClassifiesFreshState ==
    (IsClick /\ HasAction(last))
      => /\ ActionIdx(last) > 1
         /\ last.procs[1].cmd = "command_state"
         /\ last.procs[1].spawned
         /\ (ActionOf(last).cmd = "command_off"
               <=> RegexIsMatch(regex_on, OutputOf(last.procs[1])))

(***************************************************************************)
(* C3: in TimeWarrior a click whose action command failed leaves toggled   *)
(* (and the tracker) as before the click, and the next update that         *)
(* re-reads the state sets toggled to the tracker's state; after a click   *)
(* whose action command succeeded the next update, whatever its state      *)
(* command did, sets toggled to the tracker's state.                       *)
(* Violated: an update whose state command cannot be spawned classifies    *)
(* the error text and sets toggled to false while the tracker is ON.       *)
(***************************************************************************)
C3_ToggledAfterClick ==
    block = "TimeWarrior" =>
      /\ (IsClick /\ ~Succeeded(ActionOf(last)))
            => /\ toggled = last.pre.toggled
               /\ (~changed_outside => tracker = last.pre.tracker)
      /\ (/\ IsUpdate
          /\ prev = "click_failed"
          /\ last.procs[1].spawned
          /\ ~changed_outside)
            => toggled = tracker
      /\ (/\ IsUpdate
          /\ prev = "click_succeeded"
          /\ ~changed_outside)
            => toggled = tracker

(***************************************************************************)
(* C4: when the action command of a click exits non-zero, the widget state *)
(* is Critical when click returns, the update is not re-run, and neither   *)
(* the icon nor the cached flag is flipped.                                *)
(* Violated: SuperToggle::click looks only at whether the command spawned. *)
(***************************************************************************)
C4_NonZeroExitIsFailure ==
    (IsClick /\ HasAction(last) /\ ActionOf(last).spawned /\ ActionOf(last).exit # 0)
      => /\ text.state = "Critical"
         /\ ActionIdx(last) = Len(last.procs)
         /\ text.icon = last.pre.text.icon
         /\ toggled = last.pre.toggled

(***************************************************************************)
(* C5: when the action command of a click cannot be spawned or exits       *)
(* non-zero, click sets the widget state to Critical and returns Ok.       *)
(* Violated: TimeWarrior::click returns the spawn error; SuperToggle::click*)
(* treats a non-zero exit as success.                                      *)
(***************************************************************************)
C5_ClickNeverErrsOnAction ==
    (IsClick /\ HasAction(last) /\ ~Succeeded(ActionOf(last)))
      => /\ text.state = "Critical"
         /\ last.ret.status = "Ok"

(***************************************************************************)
(* C6: in every reachable state the widget state is Critical iff the most  *)
(* recent click-triggered action command failed, and Idle otherwise.       *)
(* Violated: update sets Idle after a failed click.                        *)
(***************************************************************************)
C6_CriticalIffLastActionFailed ==
    /\ text.state = "Critical" <=> last_action = "failed"
    /\ text.state = "Idle" <=> last_action # "failed"

(***************************************************************************)
(* C7: after an update that completed successfully, the icon and the text  *)
(* are those of the classification made in that call: icon_on and          *)
(* format_on rendered with the fields if ON, icon_off and format_off       *)
(* rendered with the fields ("TW IDLE" by default) if OFF.                 *)
(* Violated: TimeWarrior::update shows the bare tags or "NOT FOUND".       *)
(***************************************************************************)
C7_UpdateRendersClassifiedFormat ==
    (IsUpdate /\ last.ret.status = "Ok")
      => LET out    == IF last.procs[1].spawned THEN OutputOf(last.procs[1])
                       ELSE SpawnErrorText
             on     == IF block = "TimeWarrior" THEN RegexIsMatch(regex_on, out)
                       ELSE is_on_status(last.procs[1]).value.on
             fields == IF block = "TimeWarrior" THEN RegexCaptures(regex_on, out).groups
                       ELSE is_on_status(last.procs[1]).value.fields
             r      == Render(IF on THEN format_on ELSE format_off, fields)
         IN  /\ text.icon = (IF on THEN default_icon_on ELSE default_icon_off)
             /\ r.ok => text.text = r.text

(***************************************************************************)
(* C8: an update whose state command cannot be run, or whose output        *)
(* matches neither regex, leaves toggled, the icon and the text as they    *)
(* were.                                                                   *)
(* Violated: TimeWarrior::update classifies the error text as OFF.         *)
(***************************************************************************)
C8_FailedProbeLeavesBlock ==
    (IsUpdate /\ ProbeFailed(last))
      => /\ toggled = last.pre.toggled
         /\ text.icon = last.pre.text.icon
         /\ text.text = last.pre.text.text

(***************************************************************************)
(* C9: update returns an error whenever the state command cannot be run    *)
(* and whenever its output matches neither regex.                          *)
(* Violated: TimeWarrior::update returns Ok after a failed spawn.          *)
(***************************************************************************)
C9_UpdateErrsOnFailedProbe ==
    (IsUpdate /\ ProbeFailed(last)) => last.ret.status = "Err"

(***************************************************************************)
(* C10: SuperToggle classifies an output ON iff the ON regex matches it,   *)
(* OFF iff the ON regex does not and the OFF regex does, and as an error   *)
(* iff neither matches.                                                    *)
(* Violated: get_mapped_matches_from_string never looks at the regex, so   *)
(* every output is ON.                                                     *)
(***************************************************************************)
C10_ClassifyFollowsRegexes ==
    (block = "SuperToggle" /\ last.op \in {"update", "click"} /\ last.procs[1].spawned)
      => LET out  == OutputOf(last.procs[1])
             c    == is_on_status(last.procs[1])
             m_on == RegexIsMatch(regex_on, out)
             m_of == RegexIsMatch(regex_off, out)
         IN  /\ (c.status = "Ok" /\ c.value.on) <=> m_on
             /\ (c.status = "Ok" /\ ~c.value.on) <=> (~m_on /\ m_of)
             /\ c.status = "Err" <=> (~m_on /\ ~m_of)


\* what an update of the block leaves behind: toggled, the widget, the result
UpdateOutcome(w, tg, run) ==
    IF block = "TimeWarrior"
    THEN LET r == TimeWarrior_update(w, run)
         IN  [toggled |-> r.toggled, w |-> r.w, ret |-> r.ret]
    ELSE LET r == SuperToggle_update(w, run)
         IN  [toggled |-> tg, w |-> r.w, ret |-> r.ret]

(***************************************************************************)
(* C11: the field map of a SuperToggle classification has as keys exactly  *)
(* the named groups of the selected regex, each with the matched text, or  *)
(* the empty string when the group did not take part; no other key.        *)
(* Violated: the map is always {testing: testvalue}.                       *)
(***************************************************************************)
C11_FieldsAreNamedGroups ==
    (block = "SuperToggle" /\ last.op \in {"update", "click"} /\ last.procs[1].spawned)
      => LET c   == is_on_status(last.procs[1])
             sel == IF c.value.on THEN regex_on ELSE regex_off
             cap == RegexCaptures(sel, OutputOf(last.procs[1]))
         IN  c.status = "Ok"
               => /\ DOMAIN c.value.fields = NamedGroups(sel)
                  /\ \A k \in NamedGroups(sel) :
                        c.value.fields[k] =
                          (IF cap.matched /\ k \in DOMAIN cap.groups
                           THEN cap.groups[k] ELSE <<>>)

(***************************************************************************)
(* C12: every update that completes successfully returns the configured    *)
(* update_interval (None when none is configured), and no update or click  *)
(* changes update_interval.                                                *)
(***************************************************************************)
C12_UpdateReturnsInterval ==
    [][/\ update_interval' = update_interval
       /\ (last'.op = "update" /\ last'.ret.status = "Ok")
             => last'.ret.value = update_interval]_vars

\* an update returned the configured Some(5 s)
C12_Witness ==
    /\ IsUpdate
    /\ last.ret.status = "Ok"
    /\ update_interval = {5}
    /\ last.ret.value = {5}

(***************************************************************************)
(* C13: the result of an update depends on the stdout of the state command *)
(* and not on its exit status: had the state command of the last update    *)
(* exited with any other status and the same stdout, toggled, icon, text,  *)
(* widget state and returned value would be the same.                      *)
(***************************************************************************)
C13_UpdateIgnoresExitStatus ==
    (IsUpdate /\ last.procs[1].spawned)
      => \A e \in StateExits :
            UpdateOutcome(last.pre.text, last.pre.toggled,
                          [last.procs[1] EXCEPT !.exit = e])
              = [toggled |-> toggled, w |-> text, ret |-> last.ret]

\* an update whose state command exited non-zero completed
C13_Witness ==
    /\ IsUpdate
    /\ last.procs[1].spawned
    /\ last.procs[1].exit # 0
    /\ last.ret.status = "Ok"

\* both icon ids resolve in the theme
BothIconsResolve == icons = {default_icon_on, default_icon_off}

(***************************************************************************)
(* C15: SuperToggle::update is all-or-nothing on the widget: when it       *)
(* returns an error, icon, text and state are as before the call; when it  *)
(* returns Ok, all three were set in the call.                             *)
(* Violated: the icon is set before the format is rendered, so a rendering *)
(* error leaves the new icon behind.                                       *)
(***************************************************************************)
C15_UpdateAllOrNothing ==
    (block = "SuperToggle" /\ IsUpdate)
      => /\ last.ret.status = "Err" => text = last.pre.text
         /\ last.ret.status = "Ok"
              => LET c == is_on_status(last.procs[1]).value
                 IN  /\ text.icon = (IF c.on THEN default_icon_on ELSE default_icon_off)
                     /\ text.text = Render(IF c.on THEN format_on ELSE format_off,
                                           c.fields).text
                     /\ text.state = "Idle"

(***************************************************************************)
(* C16: the child processes of one SuperToggle::click run in the order     *)
(* state command, one action command, state command again; the action is   *)
(* not fired when the first probe fails, the state command is run again    *)
(* iff the action command was spawned, and there are at most three.        *)
(***************************************************************************)
C16_ClickProcessOrder ==
    (block = "SuperToggle" /\ IsClick)
      => LET p == last.procs
         IN  /\ Len(p) \in 1..3
             /\ p[1].cmd = "command_state"
             /\ Len(p) >= 2 <=> is_on_status(p[1]).status = "Ok"
             /\ Len(p) >= 2 => p[2].cmd \in {"command_on", "command_off"}
             /\ Len(p) = 3 <=> (Len(p) >= 2 /\ p[2].spawned)
             /\ Len(p) = 3 => p[3].cmd = "command_state"

\* a click ran all three child processes and returned Ok
C16_Witness ==
    /\ block = "SuperToggle"
    /\ IsClick
    /\ Len(last.procs) = 3
    /\ last.procs[3].spawned
    /\ last.ret.status = "Ok"

(***************************************************************************)
(* C17: in TimeWarrior, when both icon ids resolve, after the first update *)
(* or the first successful click the icon is icon_on iff toggled is true   *)
(* and icon_off iff it is false.                                           *)
(***************************************************************************)
C17_IconFollowsToggled ==
    (/\ block = "TimeWarrior"
     /\ BothIconsResolve
     /\ \/ IsUpdate
        \/ KindOf(last) = "click_succeeded"
        \/ text.icon # NoIcon)
      => /\ text.icon = default_icon_on <=> toggled
         /\ text.icon = default_icon_off <=> ~toggled

\* a failed click after the icon was set: toggled and icon_on both stay
C17_Witness ==
    /\ block = "TimeWarrior"
    /\ BothIconsResolve
    /\ KindOf(last) = "click_failed"
    /\ prev = "click_succeeded"
    /\ toggled
    /\ text.icon = default_icon_on

\* C18: right after a TimeWarrior update, with no change made to the tracker
\* behind the block's back since, the cached toggled equals the tracker's
\* state: toggled differs from it only between a click or an outside change
\* and the next update.
C18_UpdateSyncsToggled ==
    (block = "TimeWarrior" /\ IsUpdate /\ ~changed_outside) => toggled = tracker


\* the last two operations were TimeWarrior clicks whose action commands
\* succeeded, with no update between them
TwoSuccessfulClicks ==
    /\ block = "TimeWarrior"
    /\ KindOf(last) = "click_succeeded"
    /\ prev = "click_succeeded"

\* a TimeWarrior click whose action command succeeded flips toggled
ClickFlipsToggled ==
    (block = "TimeWarrior" /\ KindOf(last) = "click_succeeded")
      => toggled = ~last.pre.toggled

\* two consecutive successful clicks fire opposite commands and restore toggled
TwoClicksRestoreToggled ==
    TwoSuccessfulClicks
      => /\ {ActionOf(last).cmd, prior.cmd} = {"command_on", "command_off"}
         /\ toggled = prior.toggled

\* a click after a failed click fires the command the failed click fired
FailedClickKeepsCommand ==
    (block = "TimeWarrior" /\ IsClick /\ prev = "click_failed")
      => ActionOf(last).cmd = prior.cmd

\* C19 as stated: in TimeWarrior, with no update in between, a successful
\* click flips toggled and the icon, two consecutive successful clicks fire
\* opposite commands and restore toggled and the icon to their values before
\* the first, and a failed click leaves the next click's command unchanged.
C19_TwoClicksRestore ==
    /\ ClickFlipsToggled
    /\ (block = "TimeWarrior" /\ KindOf(last) = "click_succeeded")
          => text.icon # last.pre.text.icon
    /\ TwoClicksRestoreToggled
    /\ TwoSuccessfulClicks => text.icon = prior.icon
    /\ FailedClickKeepsCommand

\* C19 amended: the flip and the restoring of toggled and of the commands hold
\* always; the icon flips when both icon ids resolve, and two consecutive
\* successful clicks restore it when the block had an icon before the first.
C19_TwoClicksRestoreSetIcon ==
    /\ ClickFlipsToggled
    /\ (block = "TimeWarrior" /\ KindOf(last) = "click_succeeded" /\ BothIconsResolve)
          => text.icon # last.pre.text.icon
    /\ TwoClicksRestoreToggled
    /\ (TwoSuccessfulClicks /\ prior.icon # NoIcon) => text.icon = prior.icon
    /\ FailedClickKeepsCommand

\* two consecutive successful clicks on a block that had an icon, in a theme
\* that resolves both icons
C19_Witness ==
    /\ TwoSuccessfulClicks
    /\ BothIconsResolve
    /\ prior.icon # NoIcon
    /\ text.icon = prior.icon
    /\ toggled = prior.toggled


(***************************************************************************)
(* The handlers step by step: the host calls update or click, the handler  *)
(* spawns one child process at a time with Command::output(), which        *)
(* returns when the child has exited, and the handler returns.             *)
(***************************************************************************)
\* the most child processes the model lets be alive at once
MaxChildren == 2

\* a host that calls a handler while another one is in progress
HostMayCall_reentrant(p) == TRUE

\* update and click take &mut self: the host calls one only when no other
\* call on the block is in progress
HostMayCall(p) == p.op = "idle"

\* the command the handler p runs next, "none" when it is about to return
PendingCommand(p, tg) ==
    LET n == Len(p.runs)
    IN  IF n = 0
        THEN IF p.op = "click" /\ block = "TimeWarrior" THEN TimeWarrior_cmd(tg)
             ELSE "command_state"
        ELSE IF p.op = "update" \/ block = "TimeWarrior" THEN "none"
        ELSE IF n = 1
        THEN IF is_on_status(p.runs[1]).status = "Ok"
             THEN SuperToggle_cmd(p.runs[1]) ELSE "none"
        ELSE IF n = 2 /\ get_output_of_command(p.runs[2]).status = "Ok"
        THEN "command_state"
        ELSE "none"

\* the i-th run of rs, or an unspawned run when the handler ran fewer
RunAt(rs, i) == IF i <= Len(rs) THEN rs[i] ELSE UnspawnedStateRun

\* what a click of the block leaves behind: toggled, the widget, the result
ClickOutcome(w, tg, rs) ==
    IF block = "TimeWarrior"
    THEN LET r == TimeWarrior_click(w, tg, rs[1])
         IN  [toggled |-> r.toggled, w |-> r.w, ret |-> r.ret]
    ELSE LET r == SuperToggle_click(w, rs[1], RunAt(rs, 2), RunAt(rs, 3))
         IN  [toggled |-> tg, w |-> r.w, ret |-> r.ret]

\* toggled, the widget and the result so far of the handler `op` that was
\* called on widget w and flag tg and has run rs: SuperToggle::click has
\* written nothing when it fires the action command, and only
\* set_state(Idle) when it starts the re-read
HandlerProgress(op, w, tg, rs) ==
    IF op = "update" THEN UpdateOutcome(w, tg, rs[1])
    ELSE IF PendingCommand([op |-> op, runs |-> rs], tg) = "none"
    THEN ClickOutcome(w, tg, rs)
    ELSE [toggled |-> tg,
          w       |-> IF Len(rs) = 2 THEN set_state(w, "Idle") ELSE w,
          ret     |-> Ok(Unit)]

\* the host calls update or click
Call ==
    /\ HostMayCall(pc)
    /\ \E op \in {"update", "click"} :
         pc' = [op |-> op, at |-> "run", runs |-> <<>>, pre |-> Snapshot]
    /\ UNCHANGED <<config, toggled, text, tracker, changed_outside, last, prev, prior,
                   last_action, running>>

\* Command::output() spawns the pending command, or fails to; when it
\* fails the handler goes on with the error
SpawnChild ==
    /\ pc.op # "idle"
    /\ pc.at = "run"
    /\ PendingCommand(pc, pc.pre.toggled) # "none"
    /\ Len(running) < MaxChildren
    /\ LET cmd == PendingCommand(pc, pc.pre.toggled)
           rs  == Append(pc.runs, Run(cmd, FALSE, 0, <<>>))
           pg  == HandlerProgress(pc.op, pc.pre.text, pc.pre.toggled, rs)
       IN  \/ /\ running' = Append(running, cmd)
              /\ pc' = [pc EXCEPT !.at = "wait"]
              /\ UNCHANGED <<toggled, text>>
           \/ /\ running' = running
              /\ pc' = [pc EXCEPT !.runs = rs]
              /\ toggled' = pg.toggled
              /\ text' = pg.w
    /\ UNCHANGED <<config, tracker, changed_outside, last, prev, prior, last_action>>

\* the child the handler waits for exits: Command::output() returns its
\* exit status and stdout, and the handler runs on to its next command or
\* to its end, writing toggled and the widget on the way
ChildExit ==
    /\ pc.at = "wait"
    /\ running # <<>>
    /\ LET cmd == running[Len(running)]
       IN  \E run \in (IF cmd = "command_state" THEN StateRuns(tracker)
                        ELSE ActionRuns(cmd)) :
              LET rs == Append(pc.runs, run)
                  pg == HandlerProgress(pc.op, pc.pre.text, pc.pre.toggled, rs)
              IN  /\ run.spawned
                  /\ running' = SubSeq(running, 1, Len(running) - 1)
                  /\ pc' = [pc EXCEPT !.at = "run", !.runs = rs]
                  /\ tracker' = IF cmd = "command_state" THEN tracker
                                ELSE TrackerAfter(tracker, run)
                  /\ toggled' = pg.toggled
                  /\ text' = pg.w
    /\ UNCHANGED <<config, changed_outside, last, prev, prior, last_action>>

\* the handler has run its commands and returns its result
Return ==
    /\ pc.op # "idle"
    /\ pc.at = "run"
    /\ PendingCommand(pc, pc.pre.toggled) = "none"
    /\ last' = [op |-> pc.op,
                ret |-> HandlerProgress(pc.op, pc.pre.text, pc.pre.toggled, pc.runs).ret,
                procs |-> pc.runs, pre |-> pc.pre]
    /\ last_action' = IF pc.op = "click" THEN ActionOutcome(pc.runs, last_action)
                      ELSE last_action
    /\ prev' = IF block = "TimeWarrior" THEN KindOf(last) ELSE prev
    /\ prior' = IF block = "TimeWarrior" THEN Summary(last) ELSE prior
    /\ pc' = IdlePc
    /\ UNCHANGED <<config, toggled, text, tracker, changed_outside, running>>

\* the user starts or stops the tracker outside the bar, between two
\* operations or while a handler runs or waits for a child
ExternalProc ==
    /\ tracker' = ~tracker
    /\ UNCHANGED <<config, toggled, text, changed_outside, last, prev, prior, last_action,
                   proc>>

NextProc == Call \/ SpawnChild \/ ChildExit \/ Return \/ ExternalProc

\* the step-by-step specification starts from the constructed blocks of one
\* theme and one interval: the handlers run the same commands in all of them
InitProc ==
    /\ Init
    /\ icons = {default_icon_on, default_icon_off}
    /\ update_interval = {}
    /\ regex_on = "tags_line"

SpecProc == InitProc /\ [][NextProc]_vars

\* what the update recorded in `last` committed
Committed == UpdateOutcome(last.pre.text, last.pre.toggled, last.procs[1])

\* C14: update and click run serially and await each child process: at most
\* one child process of the block is running at any time, none while a
\* handler runs its own code or no handler is in progress; a click that
\* follows an update works on the toggled and widget that update committed;
\* while the state command of an update runs, no action command is running.
C14_OneChildAtATime ==
    /\ Len(running) <= 1
    /\ pc.at = "run" => running = <<>>
    /\ (pc.op = "click" /\ IsUpdate)
          => /\ pc.pre.toggled = Committed.toggled
             /\ pc.pre.text = Committed.w
    /\ (pc.op = "update" /\ pc.at = "wait")
          => \A i \in 1..Len(running) : running[i] = "command_state"

\* the state command of an update is running, and the update follows a
\* SuperToggle click that ran its three commands one after the other
C14_Witness ==
    /\ block = "SuperToggle"
    /\ pc.op = "update"
    /\ running = <<"command_state">>
    /\ IsClick
    /\ Len(last.procs) = 3
    /\ ActionOf(last).spawned

\* a handler that returns has run exactly the commands its code runs
ReturnedRunsMatch ==
    (block = "SuperToggle" /\ IsClick)
      => SuperToggle_click(last.pre.text, last.procs[1], RunAt(last.procs, 2),
                           RunAt(last.procs, 3)).procs = last.procs

====
